---- MODULE Spec2Model ----
(***************************************************************************)
(* Model of the Ren'Py save editor (src/main.go): the recursive form       *)
(* encoder renderEditableForm and the two HTTP handlers uploadHandler and  *)
(* saveHandler.                                                            *)
(*                                                                         *)
(* A Go string is a sequence of one-character strings.  The markup built   *)
(* by renderEditableForm is a sequence of chunks, one per piece of a       *)
(* Sprintf format: [k |-> "lit", s |-> the literal text of the format] or  *)
(* [k |-> "arg", s |-> the characters substituted for a verb].  The markup *)
(* string is the concatenation of the chunks.                              *)
(***************************************************************************)
EXTENDS Integers, Sequences, FiniteSets, TLC

VARIABLES
    data,        \* the value being encoded (uploadHandler: the value Load returned)
    prefix,      \* renderEditableForm: the path prefix argument
    formBody,    \* markup returned by the first call
    formBody2,   \* markup returned by a second call on the same arguments
    encPc,       \* "call" | "again" | "ret" ("idle" outside the encoder runs)
    req,         \* the HTTP request in flight and what its body holds
    pc,          \* position of the handler
    status,      \* the status codes sent on w, in order
    respBody,    \* the chunks written to w
    zipFiles,    \* zipReader.File: entry names in archive order
    logFile,     \* index into zipFiles of the entry found, 0 for nil
    fileState,   \* the multipart file: "none" | "open" | "closed"
    fileRead,    \* io.ReadAll has been called on the uploaded file
    streamState, \* logFileReader: "none" | "open" | "closed"
    loadState,   \* unpickler.Load: "none" | "failed" | "done"
    defers,      \* the handler's stack of deferred calls
    postForm,    \* r.PostForm
    stdout       \* lines printed by fmt.Println / fmt.Printf

encVars == <<data, prefix, formBody, formBody2, encPc>>
reqVars == <<req, pc, status, respBody>>
upVars == <<zipFiles, logFile, fileState, fileRead, streamState, loadState, defers>>
saveVars == <<postForm, stdout>>
vars == <<encVars, reqVars, upVars, saveVars>>

---------------------------------------------------------------------------
(* Bounds of the model *)

MaxSeqLen == 3
MaxKeys == 2
MaxEntries == 2

---------------------------------------------------------------------------
(* Strings *)

Lit(s) == [k |-> "lit", s |-> s]
Arg(s) == [k |-> "arg", s |-> s]

RECURSIVE Digits(_)
Digits(n) == IF n < 10 THEN <<ToString(n)>> ELSE Digits(n \div 10) \o <<ToString(n % 10)>>

\* fmt verbs %d and %v applied to an integer
FormatInt(n) == IF n < 0 THEN <<"-">> \o Digits(-n) ELSE Digits(n)

\* fmt verb %v applied to a float64 whose value is tenths/10 (shortest
\* representation that round-trips: no fraction when it is zero)
FormatFloat(tenths) ==
    LET a == IF tenths < 0 THEN -tenths ELSE tenths
        sign == IF tenths < 0 THEN <<"-">> ELSE <<>>
    IN  sign \o Digits(a \div 10) \o
        (IF a % 10 = 0 THEN <<>> ELSE <<".">> \o Digits(a % 10))

EscapeCharNoQuote(c) ==
    CASE c = "&" -> <<"&", "a", "m", "p", ";">>
      [] c = "'" -> <<"&", "#", "3", "9", ";">>
      [] c = "<" -> <<"&", "l", "t", ";">>
      [] c = ">" -> <<"&", "g", "t", ";">>
      [] OTHER   -> <<c>>

\* the replacer table of html.EscapeString
EscapeChar(c) ==
    CASE c = "&"  -> <<"&", "a", "m", "p", ";">>
      [] c = "'"  -> <<"&", "#", "3", "9", ";">>
      [] c = "<"  -> <<"&", "l", "t", ";">>
      [] c = ">"  -> <<"&", "g", "t", ";">>
      [] c = "\"" -> <<"&", "#", "3", "4", ";">>
      [] OTHER    -> <<c>>

RECURSIVE html_EscapeString(_)
html_EscapeString(s) ==
    IF s = <<>> THEN <<>> ELSE EscapeChar(Head(s)) \o html_EscapeString(Tail(s))


---------------------------------------------------------------------------
(* Values produced by the unpickler.  A value is [t |-> Go runtime type,    *)
(* v |-> payload]: "map" (v a function from keys to values), "slice" (v a  *)
(* sequence), "string", "int", "float64" (v in tenths), "bool", "nil", and *)
(* "other" for every runtime type the type switch does not list (v is the  *)
(* text fmt prints for it).  A map key is a string or an int value.        *)

StrV(s) == [t |-> "string", v |-> s]
IntV(n) == [t |-> "int", v |-> n]
FloatV(tenths) == [t |-> "float64", v |-> tenths]
BoolV(b) == [t |-> "bool", v |-> b]
NilV == [t |-> "nil", v |-> 0]
OtherV(s) == [t |-> "other", v |-> s]
MapV(f) == [t |-> "map", v |-> f]
SliceV(q) == [t |-> "slice", v |-> q]

\* fmt.Sprintf("%v", key)
KeyStr(key) == IF key.t = "string" THEN key.v ELSE FormatInt(key.v)

\* fmt.Sprintf("%s.%s", prefix, keyStr)
MapChildPrefix(pre, keyStr) == pre \o <<".">> \o keyStr

SeqChildPrefixOneBased(pre, i) == pre \o <<"[">> \o FormatInt(i + 1) \o <<"]">>

\* fmt.Sprintf("%s[%d]", prefix, i)
SeqChildPrefix(pre, i) == pre \o <<"[">> \o FormatInt(i) \o <<"]">>

RenderString(v, pre) ==
    << Lit("<input type=\"text\" name=\""), Arg(html_EscapeString(pre)),
       Lit("\" value=\""), Arg(html_EscapeString(v)), Lit("\" size=\"100\">") >>

RenderInt(v, pre) ==
    << Lit("<input type=\"number\" name=\""), Arg(html_EscapeString(pre)),
       Lit("\" value=\""), Arg(FormatInt(v)), Lit("\">") >>

RenderFloat(v, pre) ==
    << Lit("<input type=\"number\" step=\"any\" name=\""), Arg(html_EscapeString(pre)),
       Lit("\" value=\""), Arg(FormatFloat(v)), Lit("\">") >>

RenderBool(v, pre) ==
    LET checked == IF v THEN <<"c", "h", "e", "c", "k", "e", "d">> ELSE <<>>
    IN  << Lit("<input type=\"hidden\" name=\""), Arg(html_EscapeString(pre)),
           Lit("\" value=\"false\"><input type=\"checkbox\" name=\""),
           Arg(html_EscapeString(pre)), Lit("\" value=\"true\" "), Arg(checked), Lit(">") >>

RenderNilAsInput(pre) ==
    << Lit("<input type=\"text\" name=\""), Arg(html_EscapeString(pre)),
       Lit("\" value=\""), Arg(<<>>), Lit("\" size=\"100\">") >>

RenderNil(pre) == << Lit("<em>nil</em>") >>

RenderOther(v) == << Lit("<code>"), Arg(html_EscapeString(v)), Lit("</code>") >>

\* the orders in which `for key, value := range v` may visit the keys of a map
RangeOrders(keys) ==
    { o \in [1..Cardinality(keys) -> keys] : \A i, j \in DOMAIN o : i # j => o[i] # o[j] }

RECURSIVE renderEditableForm(_, _), RenderMapItems(_, _, _), RenderSliceItems(_, _, _)

\* the loop body of the map case, for the keys of `order` in turn
RenderMapItems(m, order, pre) ==
    IF order = <<>> THEN { <<>> }
    ELSE LET key == Head(order)
             keyStr == KeyStr(key)
             newPrefix == MapChildPrefix(pre, keyStr)
         IN  { << Lit("<li><label>"), Arg(html_EscapeString(keyStr)), Lit(":</label> ") >>
               \o child \o << Lit("</li>") >> \o rest :
                 child \in renderEditableForm(m[key], newPrefix),
                 rest \in RenderMapItems(m, Tail(order), pre) }

\* the loop body of the slice case, from Go index i on
RenderSliceItems(q, i, pre) ==
    IF i >= Len(q) THEN { <<>> }
    ELSE { << Lit("<li>") >> \o child \o << Lit("</li>") >> \o rest :
             child \in renderEditableForm(q[i + 1], SeqChildPrefix(pre, i)),
             rest \in RenderSliceItems(q, i + 1, pre) }

\* The set of strings a call may return: one per order in which the runtime
\* ranges over the maps of the value.
renderEditableForm(d, pre) ==
    CASE d.t = "map" ->
           { << Lit("<ul>") >> \o items \o << Lit("</ul>") >> :
               items \in UNION { RenderMapItems(d.v, o, pre) : o \in RangeOrders(DOMAIN d.v) } }
      [] d.t = "slice" ->
           { << Lit("<ol>") >> \o items \o << Lit("</ol>") >> :
               items \in RenderSliceItems(d.v, 0, pre) }
      [] d.t = "string" -> { RenderString(d.v, pre) }
      [] d.t = "int" -> { RenderInt(d.v, pre) }
      [] d.t = "float64" -> { RenderFloat(d.v, pre) }
      [] d.t = "bool" -> { RenderBool(d.v, pre) }
      [] d.t = "nil" -> { RenderNil(pre) }
      [] OTHER -> { RenderOther(d.v) }

---------------------------------------------------------------------------
(* The values and prefixes the encoder is checked on *)

Root == <<"r", "o", "o", "t">>

Root0 == <<"r", "o", "o", "t", "[", "0", "]">>

Prefixes == { Root, Root0 }

Keys == { StrV(<<"1">>), IntV(1), StrV(<<"<", "k", "\"">>) }

Leaves ==
    { StrV(<<"<", "s", "c", "r", "i", "p", "t", ">">>), StrV(<<"\"", "&", "'">>),
      IntV(10), FloatV(15), FloatV(-20), BoolV(TRUE), BoolV(FALSE), NilV,
      OtherV(<<"<", "o", " ", "\"", ">">>) }

SeqsOver(S, n) == UNION { [1..m -> S] : m \in 0..n }

MapsOver(S, n) == UNION { [D -> S] : D \in { K \in SUBSET Keys : Cardinality(K) <= n } }

\* maps and slices of leaves
Flat == { MapV(f) : f \in MapsOver(Leaves, MaxKeys) }
        \cup { SliceV(q) : q \in SeqsOver(Leaves, MaxSeqLen) }

InnerLeaves == { IntV(10), BoolV(TRUE) }

Inner ==
    InnerLeaves
    \cup { SliceV(<<>>), MapV(<<>>) }
    \cup { SliceV(<<x>>) : x \in InnerLeaves }
    \cup { SliceV(<<x, y>>) : x, y \in InnerLeaves }
    \cup { MapV(k :> x) : k \in Keys, x \in InnerLeaves }

\* maps and slices of one or two maps, slices or leaves
Nested ==
    { SliceV(<<x>>) : x \in Inner }
    \cup { SliceV(<<x, y>>) : x, y \in Inner }
    \cup { MapV(k :> x) : k \in Keys, x \in Inner }
    \cup { MapV(k :> x @@ l :> y) : k, l \in Keys, x, y \in Inner }

Gold == <<"g", "o", "l", "d">>
Flags == <<"f", "l", "a", "g", "s">>

Examples ==
    { IntV(-7), SliceV(<<IntV(10), IntV(20), IntV(30)>>),
      MapV(StrV(Gold) :> IntV(100) @@ StrV(Flags) :> SliceV(<<BoolV(TRUE), BoolV(FALSE)>>)) }

Values == Leaves \cup Flat \cup Nested \cup Examples

---------------------------------------------------------------------------
(* Calls of renderEditableForm: a first call, and a second call on the     *)
(* same arguments.                                                         *)

NoBody == << >>

NoRequest == [route |-> "none"]

\* a handler's state when it is entered at position p
HandlerStart(p) ==
    /\ pc = p /\ status = <<>> /\ respBody = NoBody
    /\ zipFiles = <<>> /\ logFile = 0 /\ fileState = "none" /\ fileRead = FALSE
    /\ streamState = "none" /\ loadState = "none" /\ defers = <<>>
    /\ postForm = <<>> /\ stdout = <<>>

InitEncoder ==
    /\ data \in Values
    /\ prefix \in Prefixes
    /\ formBody = NoBody
    /\ formBody2 = NoBody
    /\ encPc = "call"
    /\ req = NoRequest
    /\ HandlerStart("idle")

Encode ==
    /\ encPc = "call"
    /\ formBody' \in renderEditableForm(data, prefix)
    /\ encPc' = "again"
    /\ UNCHANGED <<data, prefix, formBody2, reqVars, upVars, saveVars>>

EncodeAgain ==
    /\ encPc = "again"
    /\ formBody2' \in renderEditableForm(data, prefix)
    /\ encPc' = "ret"
    /\ UNCHANGED <<data, prefix, formBody, reqVars, upVars, saveVars>>

NextEncoder == Encode \/ EncodeAgain

SpecEncoder == InitEncoder /\ [][NextEncoder]_vars

---------------------------------------------------------------------------
(* Reading the markup back: the input controls of a form body, in document *)
(* order, with the attribute values an HTML parser decodes from it.        *)

StartsWith(s, p) == Len(s) >= Len(p) /\ SubSeq(s, 1, Len(p)) = p

Drop(s, n) == SubSeq(s, n + 1, Len(s))

Entities ==
    { <<"&", "a", "m", "p", ";">>, <<"&", "#", "3", "9", ";">>, <<"&", "l", "t", ";">>,
      <<"&", "g", "t", ";">>, <<"&", "#", "3", "4", ";">> }

EntityChar(e) ==
    CASE e = <<"&", "a", "m", "p", ";">> -> "&"
      [] e = <<"&", "#", "3", "9", ";">> -> "'"
      [] e = <<"&", "l", "t", ";">> -> "<"
      [] e = <<"&", "g", "t", ";">> -> ">"
      [] OTHER -> "\""

RECURSIVE Unescape(_)
Unescape(s) ==
    IF s = <<>> THEN <<>>
    ELSE IF \E e \in Entities : StartsWith(s, e)
         THEN LET e == CHOOSE x \in Entities : StartsWith(s, x)
              IN  <<EntityChar(e)>> \o Unescape(Drop(s, Len(e)))
         ELSE <<Head(s)>> \o Unescape(Tail(s))

False == <<"f", "a", "l", "s", "e">>
True == <<"t", "r", "u", "e">>

Field(type, name, value, checked) ==
    [type |-> type, name |-> Unescape(name), value |-> Unescape(value), checked |-> checked]

FieldsAt(body, i) ==
    IF body[i].k # "lit" THEN <<>>
    ELSE CASE body[i].s = "<input type=\"text\" name=\"" ->
                <<Field("text", body[i + 1].s, body[i + 3].s, FALSE)>>
           [] body[i].s \in { "<input type=\"number\" name=\"",
                              "<input type=\"number\" step=\"any\" name=\"" } ->
                <<Field("number", body[i + 1].s, body[i + 3].s, FALSE)>>
           [] body[i].s = "<input type=\"hidden\" name=\"" ->
                <<Field("hidden", body[i + 1].s, False, FALSE)>>
           [] body[i].s = "\" value=\"false\"><input type=\"checkbox\" name=\"" ->
                <<Field("checkbox", body[i + 1].s, True, body[i + 3].s # <<>>)>>
           [] OTHER -> <<>>

RECURSIVE FieldsFrom(_, _)
FieldsFrom(body, i) ==
    IF i > Len(body) THEN <<>> ELSE FieldsAt(body, i) \o FieldsFrom(body, i + 1)

Fields(body) == FieldsFrom(body, 1)

FieldNames(body) == LET fs == Fields(body) IN { fs[i].name : i \in DOMAIN fs }

\* the fields of a body that carry the name p, in document order
Named(body, p) == SelectSeq(Fields(body), LAMBDA f : f.name = p)

\* what a browser submits for name p when the form is sent unedited: the
\* values of the controls named p, an unchecked checkbox sending nothing
Submitted(body, p) ==
    LET sent == SelectSeq(Named(body, p), LAMBDA f : f.type # "checkbox" \/ f.checked)
    IN  [i \in 1..Len(sent) |-> sent[i].value]

---------------------------------------------------------------------------
(* Field paths as the specification defines them: the root token, then     *)
(* `.<mapKey>` for a Mapping descent and `[<index>]` for a Sequence one.   *)

Editable == { "string", "int", "float64", "bool" }

RECURSIVE LeafPaths(_, _)
LeafPaths(d, pre) ==
    CASE d.t = "map" ->
           UNION { LeafPaths(d.v[k], pre \o <<".">> \o KeyStr(k)) : k \in DOMAIN d.v }
      [] d.t = "slice" ->
           UNION { LeafPaths(d.v[i], pre \o <<"[">> \o Digits(i - 1) \o <<"]">>) :
                     i \in DOMAIN d.v }
      [] OTHER -> { <<pre, d>> }

EditablePaths(d, pre) == { pl[1] : pl \in { x \in LeafPaths(d, pre) : x[2].t \in Editable } }

RECURSIVE SumSeq(_)
SumSeq(q) == IF q = <<>> THEN 0 ELSE Head(q) + SumSeq(Tail(q))

\* the number of leaf positions of d whose leaf has a type in T
RECURSIVE CountLeaves(_, _)
CountLeaves(d, T) ==
    CASE d.t = "map" ->
           LET o == CHOOSE x \in RangeOrders(DOMAIN d.v) : TRUE
           IN  SumSeq([i \in DOMAIN o |-> CountLeaves(d.v[o[i]], T)])
      [] d.t = "slice" -> SumSeq([i \in DOMAIN d.v |-> CountLeaves(d.v[i], T)])
      [] OTHER -> IF d.t \in T THEN 1 ELSE 0

\* the number of input controls the specification's table gives d
InputCount(d) == CountLeaves(d, { "string", "int", "float64" }) + 2 * CountLeaves(d, { "bool" })

Encoded == encPc \in { "again", "ret" }

---------------------------------------------------------------------------
(* Properties of the encoder *)

Script == <<"<", "s", "c", "r", "i", "p", "t", ">">>
QuoteKey == StrV(<<"<", "k", "\"">>)

\* C1: any two distinct leaf positions of the encoded value get distinct
\* field paths: the form carries as many different name attributes as the
\* value has leaves that are rendered as inputs.
PathBijection ==
    Encoded => Cardinality(FieldNames(formBody)) = CountLeaves(data, Editable)

\* s holds none of the characters < > " ' and every & in it starts one of the
\* entities html.EscapeString writes
EscapedOnly(s) ==
    \A j \in DOMAIN s :
        /\ s[j] \notin { "<", ">", "\"", "'" }
        /\ s[j] = "&" => \E e \in Entities : StartsWith(Drop(s, j - 1), e)

\* C5: every piece of text the encoder substitutes into the markup (text
\* values, key labels, name attributes, the string form of opaque values,
\* numbers) is in escaped form: no raw < > or quote, every & an entity.
EscapingHolds ==
    Encoded => \A i \in DOMAIN formBody :
                   formBody[i].k = "arg" => EscapedOnly(formBody[i].s)

EscapingWitness ==
    /\ Encoded
    /\ data = MapV(QuoteKey :> StrV(Script))
    /\ Fields(formBody)[1].value = Script

BooleanFields ==
    Encoded =>
        \A pl \in LeafPaths(data, prefix) :
            pl[2].t = "bool" =>
                LET fs == Named(formBody, pl[1])
                IN  /\ Len(fs) = 2
                    /\ fs[1].type = "hidden" /\ fs[1].value = False
                    /\ fs[2].type = "checkbox" /\ fs[2].value = True
                    /\ fs[2].checked = pl[2].v
                    /\ Submitted(formBody, pl[1]) =
                           IF pl[2].v THEN <<False, True>> ELSE <<False>>

IndexPath(pre, i) == pre \o <<"[">> \o Digits(i) \o <<"]">>

\* C8: the fields of an encoded Sequence of n elements come in ascending
\* index order: every field name starts with prefix[i] for one i < n, the
\* indices never decrease along the document, element i contributes exactly
\* the inputs of its own value, and a leaf element is named prefix[i]; the
\* sequence [10,20,30] at root gives root[0], root[1], root[2] in that order.
SequenceTraversal ==
    Encoded /\ data.t = "slice" =>
        LET fs == Fields(formBody)
            n == Len(data.v)
            idx(j) == CHOOSE i \in 0..(n - 1) : StartsWith(fs[j].name, IndexPath(prefix, i))
        IN  /\ \A j \in DOMAIN fs :
                   \E i \in 0..(n - 1) : StartsWith(fs[j].name, IndexPath(prefix, i))
            /\ \A j, k \in DOMAIN fs : j < k => idx(j) <= idx(k)
            /\ \A i \in 0..(n - 1) :
                   /\ Cardinality({ j \in DOMAIN fs : idx(j) = i }) = InputCount(data.v[i + 1])
                   /\ data.v[i + 1].t \in Editable =>
                          \A j \in DOMAIN fs : idx(j) = i => fs[j].name = IndexPath(prefix, i)
            /\ data = SliceV(<<IntV(10), IntV(20), IntV(30)>>) /\ prefix = Root =>
                   [j \in DOMAIN fs |-> fs[j].name] =
                       << <<"r", "o", "o", "t", "[", "0", "]">>,
                          <<"r", "o", "o", "t", "[", "1", "]">>,
                          <<"r", "o", "o", "t", "[", "2", "]">> >>

SequenceWitness ==
    /\ Encoded
    /\ data = SliceV(<<IntV(10), IntV(20), IntV(30)>>)
    /\ prefix = Root
    /\ Len(Fields(formBody)) = 3

NestedSequenceWitness ==
    /\ Encoded
    /\ data = SliceV(<<SliceV(<<IntV(10), BoolV(TRUE)>>), IntV(10)>>)
    /\ prefix = Root0
    /\ Len(Fields(formBody)) = 4

CountOfType(fs, type) == Cardinality({ i \in DOMAIN fs : fs[i].type = type })

\* C10: the name attributes of the form are exactly the field paths of the
\* Text, Integer, Float and Boolean leaves, with one input per Text, Integer
\* or Float leaf and two per Boolean leaf; Null and Opaque leaves and the
\* containers themselves add no input; the encoder returns for every value.
SubmittableFields ==
    /\ renderEditableForm(data, prefix) # {}
    /\ Encoded =>
        LET fs == Fields(formBody)
        IN  /\ { fs[i].name : i \in DOMAIN fs } = EditablePaths(data, prefix)
            /\ Len(fs) = InputCount(data)
            /\ CountOfType(fs, "text") = CountLeaves(data, { "string" })
            /\ CountOfType(fs, "number") = CountLeaves(data, { "int", "float64" })
            /\ CountOfType(fs, "hidden") = CountLeaves(data, { "bool" })
            /\ CountOfType(fs, "checkbox") = CountLeaves(data, { "bool" })

SubmittableWitness ==
    /\ Encoded
    /\ data = SliceV(<<NilV, OtherV(<<"<", "o", " ", "\"", ">">>), BoolV(TRUE)>>)
    /\ Len(Fields(formBody)) = 2

---------------------------------------------------------------------------
(* uploadHandler, one action per statement that can return.  The request   *)
(* record holds what the client sent: whether the multipart form has the   *)
(* field savefile, whether the file can be read, whether it is a zip       *)
(* archive, the names of its entries, whether the entry opens, and what    *)
(* the entry unpickles to.                                                 *)

StatusOK == 200
StatusBadRequest == 400
StatusMethodNotAllowed == 405
StatusInternalServerError == 500

Methods == { "GET", "POST", "PUT" }

EntryNames == { "log", "Log", "log.bak" }

UploadValues ==
    Examples \cup { IntV(10), MapV(IntV(1) :> BoolV(TRUE) @@ StrV(<<"1">>) :> NilV) }

UploadRequests ==
    { [route |-> "/upload", method |-> m, hasFile |-> hf, readOk |-> ro, zipOk |-> zo,
       entries |-> es, openOk |-> oo, pickleOk |-> po, value |-> v] :
        m \in Methods, hf \in BOOLEAN, ro \in BOOLEAN, zo \in BOOLEAN,
        es \in UNION { [1..n -> EntryNames] : n \in 0..MaxEntries },
        oo \in BOOLEAN, po \in BOOLEAN, v \in UploadValues }

\* the page template of uploadHandler before and after the verb (white space
\* between the tags left out)
PageHead ==
    "<!DOCTYPE html><html><head><title>Ren'Py Save Editor</title></head><body><h2>Edit Save File Data</h2><form action=\"/save\" method=\"post\">"
PageTail == "<br><input type=\"submit\" value=\"Save Changes\"></form></body></html>"

\* http.Error(w, msg, code)
HttpError(msg, code) ==
    /\ status' = Append(status, code)
    /\ respBody' = respBody \o << Lit(msg) >>

InitUpload ==
    /\ req \in UploadRequests
    /\ data = NilV /\ prefix = Root /\ formBody = NoBody /\ formBody2 = NoBody
    /\ encPc = "idle"
    /\ HandlerStart("start")

UploadCheckMethodFallThrough ==
    /\ pc = "start"
    /\ IF req.method # "POST"
       THEN HttpError("Only POST method is allowed", StatusMethodNotAllowed)
       ELSE UNCHANGED <<status, respBody>>
    /\ pc' = "formfile"
    /\ UNCHANGED <<req, encVars, upVars, saveVars>>

UploadCheckMethod ==
    /\ pc = "start"
    /\ IF req.method # "POST"
       THEN /\ HttpError("Only POST method is allowed", StatusMethodNotAllowed)
            /\ pc' = "return"
       ELSE /\ pc' = "formfile"
            /\ UNCHANGED <<status, respBody>>
    /\ UNCHANGED <<req, encVars, upVars, saveVars>>

UploadFormFile ==
    /\ pc = "formfile"
    /\ IF ~req.hasFile
       THEN /\ HttpError("Error retrieving the file", StatusBadRequest)
            /\ pc' = "return"
            /\ UNCHANGED <<fileState, defers>>
       ELSE /\ fileState' = "open"
            /\ defers' = Append(defers, "file.Close")
            /\ pc' = "readall"
            /\ UNCHANGED <<status, respBody>>
    /\ UNCHANGED <<req, encVars, saveVars, zipFiles, logFile, fileRead, streamState, loadState>>

UploadReadAll ==
    /\ pc = "readall"
    /\ fileRead' = TRUE
    /\ IF ~req.readOk
       THEN /\ HttpError("Error reading uploaded file", StatusInternalServerError)
            /\ pc' = "return"
       ELSE /\ pc' = "zip"
            /\ UNCHANGED <<status, respBody>>
    /\ UNCHANGED <<req, encVars, saveVars, zipFiles, logFile, fileState, streamState,
                   loadState, defers>>

UploadNewReader ==
    /\ pc = "zip"
    /\ IF ~req.zipOk
       THEN /\ HttpError("Error reading zip file", StatusInternalServerError)
            /\ pc' = "return"
            /\ UNCHANGED zipFiles
       ELSE /\ zipFiles' = req.entries
            /\ pc' = "find"
            /\ UNCHANGED <<status, respBody>>
    /\ UNCHANGED <<req, encVars, saveVars, logFile, fileState, fileRead, streamState,
                   loadState, defers>>

FirstNamedAnyCase(files) ==
    IF \E i \in DOMAIN files : files[i] \in { "log", "Log" }
    THEN CHOOSE i \in DOMAIN files :
             /\ files[i] \in { "log", "Log" }
             /\ \A j \in 1..(i - 1) : files[j] \notin { "log", "Log" }
    ELSE 0

\* the loop over zipReader.File: the first entry whose name is "log", 0 for nil
FirstLog(files) ==
    IF \E i \in DOMAIN files : files[i] = "log"
    THEN CHOOSE i \in DOMAIN files :
             files[i] = "log" /\ \A j \in 1..(i - 1) : files[j] # "log"
    ELSE 0

UploadFindLog ==
    /\ pc = "find"
    /\ logFile' = FirstLog(zipFiles)
    /\ IF FirstLog(zipFiles) = 0
       THEN /\ HttpError("log file not found in save archive", StatusBadRequest)
            /\ pc' = "return"
       ELSE /\ pc' = "open"
            /\ UNCHANGED <<status, respBody>>
    /\ UNCHANGED <<req, encVars, saveVars, zipFiles, fileState, fileRead, streamState,
                   loadState, defers>>

UploadOpenNoDefer ==
    /\ pc = "open"
    /\ IF ~req.openOk
       THEN /\ HttpError("Error opening log file", StatusInternalServerError)
            /\ pc' = "return"
            /\ UNCHANGED streamState
       ELSE /\ streamState' = "open"
            /\ pc' = "load"
            /\ UNCHANGED <<status, respBody>>
    /\ UNCHANGED <<req, encVars, saveVars, zipFiles, logFile, fileState, fileRead,
                   loadState, defers>>

UploadOpen ==
    /\ pc = "open"
    /\ IF ~req.openOk
       THEN /\ HttpError("Error opening log file", StatusInternalServerError)
            /\ pc' = "return"
            /\ UNCHANGED <<streamState, defers>>
       ELSE /\ streamState' = "open"
            /\ defers' = Append(defers, "logFileReader.Close")
            /\ pc' = "load"
            /\ UNCHANGED <<status, respBody>>
    /\ UNCHANGED <<req, encVars, saveVars, zipFiles, logFile, fileState, fileRead, loadState>>

\* unpickler.Load() reads the whole pickle from logFileReader
UploadLoad ==
    /\ pc = "load"
    /\ IF ~req.pickleOk \/ streamState # "open"
       THEN /\ loadState' = "failed"
            /\ HttpError("Error unpickling log file", StatusInternalServerError)
            /\ pc' = "return"
            /\ UNCHANGED data
       ELSE /\ loadState' = "done"
            /\ data' = req.value
            /\ pc' = "render"
            /\ UNCHANGED <<status, respBody>>
    /\ UNCHANGED <<req, prefix, formBody, formBody2, encPc, saveVars, zipFiles, logFile,
                   fileState, fileRead, streamState, defers>>

\* fmt.Fprintf(w, page, renderEditableForm(data, "root")): the first write
\* sends status 200
UploadRender ==
    /\ pc = "render"
    /\ \E form \in renderEditableForm(data, Root) :
           /\ formBody' = form
           /\ respBody' = respBody \o << Lit(PageHead) >> \o form \o << Lit(PageTail) >>
    /\ status' = Append(status, StatusOK)
    /\ pc' = "return"
    /\ UNCHANGED <<req, data, prefix, formBody2, encPc, upVars, saveVars>>

\* a return statement runs the deferred calls, last deferred first
UploadRunDefer ==
    /\ pc = "return"
    /\ defers # <<>>
    /\ LET call == defers[Len(defers)]
       IN  /\ fileState' = IF call = "file.Close" THEN "closed" ELSE fileState
           /\ streamState' = IF call = "logFileReader.Close" THEN "closed" ELSE streamState
    /\ defers' = SubSeq(defers, 1, Len(defers) - 1)
    /\ UNCHANGED <<req, pc, status, respBody, encVars, saveVars, zipFiles, logFile,
                   fileRead, loadState>>

UploadReturn ==
    /\ pc = "return"
    /\ defers = <<>>
    /\ pc' = "done"
    /\ UNCHANGED <<req, status, respBody, encVars, upVars, saveVars>>

NextUpload ==
    \/ UploadCheckMethod
    \/ UploadFormFile
    \/ UploadReadAll
    \/ UploadNewReader
    \/ UploadFindLog
    \/ UploadOpen
    \/ UploadLoad
    \/ UploadRender
    \/ UploadRunDefer
    \/ UploadReturn

SpecUpload == InitUpload /\ [][NextUpload]_vars

---------------------------------------------------------------------------
(* Properties of uploadHandler *)

NothingRead ==
    /\ fileState = "none" /\ ~fileRead
    /\ zipFiles = <<>> /\ logFile = 0
    /\ streamState = "none" /\ loadState = "none"

\* C2 as stated: a request to /upload whose method is not POST is answered
\* with status 400, and no file is read or decoded for it.
UploadWrongMethodIs400 ==
    pc = "done" /\ req.method # "POST" => status = <<400>> /\ NothingRead

\* C2 amended: a request to /upload whose method is not POST is answered
\* with status 405, and no file is read or decoded for it.
UploadWrongMethodIs405 ==
    req.method # "POST" =>
        /\ NothingRead
        /\ pc = "done" => status = <<405>> /\ Len(respBody) = 1

UploadWrongMethodWitness ==
    pc = "done" /\ req.method = "GET" /\ status = <<405>>

\* the status the first failing step gives a POST request, 200 when none fails
ExpectedStatus(r) ==
    IF ~r.hasFile THEN 400
    ELSE IF ~r.readOk \/ ~r.zipOk THEN 500
    ELSE IF \A i \in DOMAIN r.entries : r.entries[i] # "log" THEN 400
    ELSE IF ~r.openOk \/ ~r.pickleOk THEN 500
    ELSE 200

\* C3: a POST to /upload gets exactly one status, that of the first failing
\* step in the order file present (400), container readable (500), entry
\* `log` found (400), entry opened and unpickled (500); when no step fails
\* the status is 200 and the body is the page whose form (action /save,
\* method post) is the encoding of the decoded value with prefix root; a
\* failure answers with a message and no form.
UploadOutcome ==
    pc = "done" /\ req.method = "POST" =>
        /\ status = << ExpectedStatus(req) >>
        /\ IF ExpectedStatus(req) = 200
           THEN /\ Len(respBody) >= 2
                /\ respBody[1] = Lit(PageHead)
                /\ respBody[Len(respBody)] = Lit(PageTail)
                /\ SubSeq(respBody, 2, Len(respBody) - 1) \in renderEditableForm(req.value, Root)
           ELSE /\ Len(respBody) = 1
                /\ respBody[1].s \notin { PageHead, PageTail }
                /\ loadState # "done"

UploadOutcomeWitness ==
    /\ pc = "done" /\ req.method = "POST" /\ status = <<200>>
    /\ req.entries = << "Log", "log" >>
    /\ Len(Fields(formBody)) = 5

UploadNoLogWitness ==
    /\ pc = "done" /\ req.method = "POST" /\ status = <<400>>
    /\ req.hasFile /\ req.entries = << "Log", "log.bak" >>

\* C9: once the `log` entry stream has been opened it is closed by the time
\* the handler has returned, on the failure path and on the success path; it
\* is open while the unpickler reads it and is closed only after Load is over.
StreamReleased ==
    /\ pc = "done" => streamState # "open"
    /\ pc = "done" /\ loadState # "none" => streamState = "closed"
    /\ pc = "load" => streamState = "open"
    /\ streamState = "closed" => loadState \in { "failed", "done" }
    /\ loadState = "done" /\ pc = "render" => streamState = "open"

StreamReleasedWitness ==
    /\ pc = "done" /\ streamState = "closed" /\ loadState = "done" /\ status = <<200>>

StreamReleasedOnFailureWitness ==
    /\ pc = "done" /\ streamState = "closed" /\ loadState = "failed" /\ status = <<500>>

---------------------------------------------------------------------------
(* saveHandler.  The request record holds the method, whether ParseForm    *)
(* fails, and the fields of the posted form: a function from field names   *)
(* to the sequence of values submitted under the name.                     *)

\* the byte values sort.Strings compares
Byte(c) ==
    CASE c = "." -> 46
      [] c = "0" -> 48
      [] c = "1" -> 49
      [] c = "R" -> 82
      [] c = "[" -> 91
      [] c = "]" -> 93
      [] c = "o" -> 111
      [] c = "r" -> 114
      [] c = "t" -> 116

\* a < b for Go strings: byte-wise lexicographic order
RECURSIVE StringLess(_, _)
StringLess(a, b) ==
    IF b = <<>> THEN FALSE
    ELSE IF a = <<>> THEN TRUE
    ELSE IF Head(a) # Head(b) THEN Byte(Head(a)) < Byte(Head(b))
    ELSE StringLess(Tail(a), Tail(b))

RECURSIVE InsertSorted(_, _)
InsertSorted(x, q) ==
    IF q = <<>> THEN <<x>>
    ELSE IF StringLess(Head(q), x) THEN <<Head(q)>> \o InsertSorted(x, Tail(q))
    ELSE <<x>> \o q

RECURSIVE SortedOf(_)
SortedOf(keys) == IF keys = <<>> THEN <<>> ELSE InsertSorted(Head(keys), SortedOf(Tail(keys)))

sort_StringsOmitted(keys) == keys

\* sort.Strings(keys)
sort_Strings(keys) == SortedOf(keys)

FormKeys ==
    { Root, <<"R", "o", "o", "t">>, <<"r", "o", "o", "t", ".", "1">>,
      <<"r", "o", "o", "t", "[", "0", "]">>, <<"r", "o", "o", "t", "[", "1", "]">> }

FormValues == { <<True>>, <<False>>, <<False, True>> }

SaveRequests ==
    { [route |-> "/save", method |-> m, parseErr |-> pe, form |-> f] :
        m \in Methods, pe \in BOOLEAN,
        f \in UNION { [K -> FormValues] : K \in SUBSET FormKeys } }

PrintHeader == [kind |-> "header", key |-> <<>>, values |-> <<>>]

\* fmt.Printf("  %s: %v\n", key, values)
PrintField(key, values) == [kind |-> "field", key |-> key, values |-> values]

Placeholder == "Changes received. Rebuilding the save file is the next step."

InitSave ==
    /\ req \in SaveRequests
    /\ data = NilV /\ prefix = Root /\ formBody = NoBody /\ formBody2 = NoBody
    /\ encPc = "idle"
    /\ HandlerStart("start")

SaveWrongMethod ==
    /\ req.method # "POST"
    /\ HttpError("Only POST method is allowed", StatusMethodNotAllowed)
    /\ UNCHANGED <<postForm, stdout>>

SaveParseError ==
    /\ req.method = "POST"
    /\ req.parseErr
    /\ HttpError("Error parsing form", StatusInternalServerError)
    /\ UNCHANGED <<postForm, stdout>>

\* the keys of r.PostForm are appended in the order range visits them, then
\* sorted; one line is printed per key; the first write sends status 200
SaveLogFields ==
    /\ req.method = "POST"
    /\ ~req.parseErr
    /\ postForm' = req.form
    /\ \E order \in RangeOrders(DOMAIN req.form) :
           LET keys == sort_Strings(order)
           IN  stdout' = stdout \o << PrintHeader >>
                         \o [i \in DOMAIN keys |-> PrintField(keys[i], req.form[keys[i]])]
    /\ status' = Append(status, StatusOK)
    /\ respBody' = respBody \o << Lit(Placeholder) >>

saveHandler ==
    /\ pc = "start"
    /\ \/ SaveWrongMethod
       \/ SaveParseError
       \/ SaveLogFields
    /\ pc' = "done"
    /\ UNCHANGED <<req, encVars, upVars>>

NextSave == saveHandler

SpecSave == InitSave /\ [][NextSave]_vars

---------------------------------------------------------------------------
(* Properties of saveHandler *)

====
